---- MODULE Spec2Model ----
(***************************************************************************)
(* The first-fit heap allocator of src/src/allocator.rs.                   *)
(*                                                                         *)
(* Memory is modelled as a function from the address of every header that  *)
(* has been written to the header record stored there.  An owning link     *)
(* Option<Box<Header>> is the address of the header it owns, None being    *)
(* the null address 0 (the representation the build uses).                 *)
(***************************************************************************)
EXTENDS Integers, Sequences, FiniteSets, TLC

\* ------------------------------------------------------------------------
\* Program constants
\* ------------------------------------------------------------------------
HEADER_SIZE == 32
PAGE_SIZE == 4096
USIZE_BITS == 64
NULL == 0

\* ------------------------------------------------------------------------
\* Bounds of the model
\* ------------------------------------------------------------------------
MaxAllocs == 3
MaxFrees == 2

\* EfiMemoryType: the category of a descriptor.
EfiMemoryType ==
    {"RESERVED", "LOADER_CODE", "LOADER_DATA", "BOOT_SERVICES_CODE",
     "BOOT_SERVICES_DATA", "RUNTIME_SERVICES_CODE", "RUNTIME_SERVICES_DATA",
     "CONVENTIONAL_MEMORY", "UNUSABLE_MEMORY", "ACPI_RECLAIM_MEMORY",
     "ACPI_MEMORY_NVS", "MEMORY_MAPPED_IO", "MEMORY_MAPPED_IO_PORT_SPACE",
     "PAL_CODE", "PRESISTENT_MEMORY"}

\* An EfiMemoryDescriptor (the fields the allocator reads).
Desc(t, start, pages) ==
    [memory_type |-> t, physical_start |-> start, number_of_pages |-> pages]

\* The memory maps the boot layer may hand over (page-aligned, disjoint
\* extents, as the firmware reports them).
MemoryMaps ==
    { << Desc("CONVENTIONAL_MEMORY", 1048576, 8) >>,
      << Desc("CONVENTIONAL_MEMORY", 0, 9) >>,
      << Desc("CONVENTIONAL_MEMORY", 0, 1) >>,
      << Desc("BOOT_SERVICES_DATA", 2097152, 4),
         Desc("CONVENTIONAL_MEMORY", 1048576, 8),
         Desc("CONVENTIONAL_MEMORY", 3145728, 2) >>,
      << Desc("CONVENTIONAL_MEMORY", 0, 9),
         Desc("CONVENTIONAL_MEMORY", 36864, 4) >>,
      << Desc("CONVENTIONAL_MEMORY", 1048576, 1),
         Desc("MEMORY_MAPPED_IO", 1052672, 2),
         Desc("CONVENTIONAL_MEMORY", 2097152, 3) >> }

\* A Layout: requested size and alignment (alignment a power of two).
Layout(s, a) == [size |-> s, align |-> a]

\* The layouts callers request.
Layouts ==
    { Layout(0, 8), Layout(64, 16), Layout(64, 4096), Layout(8192, 16),
      Layout(16000, 16), Layout(100000, 8) }

VARIABLES
    pc,            \* "boot" | "run" | "hung" | "panic"
    memory_map,    \* the MemoryMapHolder handed to init_with_mmap
    mem,           \* header address -> Header written there
    first_header,  \* ALLOCATOR.first_header
    live,          \* blocks alloc returned and dealloc has not been given:
                   \* the address and the size asked for
    allocs,        \* number of alloc calls made
    frees,         \* number of dealloc calls made
    last           \* the last call: what was asked, what came back

vars == << pc, memory_map, mem, first_header, live, allocs, frees, last >>

Max(a, b) == IF a >= b THEN a ELSE b

\* ------------------------------------------------------------------------
\* round_up_to_nearest_pow2
\* ------------------------------------------------------------------------
RECURSIVE BitLen(_)
\* number of significant bits of n: USIZE_BITS - n.leading_zeros()
BitLen(n) == IF n = 0 THEN 0 ELSE 1 + BitLen(n \div 2)

RECURSIVE Pow2(_)
Pow2(n) == IF n = 0 THEN 1 ELSE 2 * Pow2(n - 1)

\* v.wrapping_sub(1).leading_zeros(): 0 - 1 wraps to all ones, no leading zero
leading_zeros_of_pred(v) == IF v = 0 THEN 0 ELSE USIZE_BITS - BitLen(v - 1)

\* 1_usize.checked_shl(USIZE_BITS - lz).ok_or("Out of range")
round_up_to_nearest_pow2(v) ==
    LET shift == USIZE_BITS - leading_zeros_of_pred(v)
    IN  IF shift >= USIZE_BITS
        THEN [ok |-> FALSE, val |-> 0]
        ELSE [ok |-> TRUE, val |-> Pow2(shift)]

\* ------------------------------------------------------------------------
\* Header
\* ------------------------------------------------------------------------
Header(n, s, a) == [next_header |-> n, size |-> s, is_allocated |-> a]

\* self.size >= size + HEADER_SIZE * 2 + align
can_provide(h, size, align) == h.size >= size + HEADER_SIZE * 2 + align

\* end_addr with the size counted from the end of the header
end_addr_after_header(m, a) == a + HEADER_SIZE + m[a].size

\* self as usize + self.size
end_addr(m, a) == a + m[a].size

\* header.write(Header { None, 0, false }) at addr: a raw write, which runs
\* no destructor on what the address held.
new_from_addr(m, addr) ==
    [a \in (DOMAIN m) \cup {addr} |->
        IF a = addr THEN Header(NULL, 0, FALSE) ELSE m[a]]

\* from_allocated_region without the step back over the header
from_allocated_region_no_offset(addr) == addr

\* addr.sub(HEADER_SIZE)
from_allocated_region(addr) == addr - HEADER_SIZE

\* x & !(align - 1), align a power of two
AlignDown(x, align) == x - (x % align)

\* the rounded size and alignment of provide, lines 79-80
RoundedSize(layout) ==
    LET r == round_up_to_nearest_pow2(layout.size)
    IN  [ok |-> r.ok, val |-> Max(r.val, HEADER_SIZE)]
EffectiveAlign(layout) == Max(layout.align, HEADER_SIZE)

\* Refuses without the test of is_allocated
Refuses_ignoring_allocated(h, layout) ==
    \/ ~RoundedSize(layout).ok
    \/ ~can_provide(h, RoundedSize(layout).val, EffectiveAlign(layout))

\* provide returns None: rounding failed (the ? of line 79), the block is
\* allocated, or it cannot provide (line 83).
Refuses(h, layout) ==
    \/ ~RoundedSize(layout).ok
    \/ h.is_allocated
    \/ ~can_provide(h, RoundedSize(layout).val, EffectiveAlign(layout))

\* provide, lines 93-97: the header of the allocated block is written at ha,
\* marked allocated, and takes over what followed self.  An assignment to a
\* next link drops the header the link held (Drop for Header panics).
header_for_allocated(m, self, ha) ==
    LET m1 == [new_from_addr(m, ha) EXCEPT ![ha].is_allocated = TRUE]
        t == m1[self].next_header
    IN  [mem |-> [m1 EXCEPT ![self].next_header = NULL,
                            ![ha].next_header = t],
         size_used |-> 0 + m1[ha].size,
         dropped |-> m1[ha].next_header # NULL]

\* header_for_padding with the padding counted from the end of a header
\* that follows the allocated block
header_for_padding_past_header(st, self, ha) ==
    LET hp == end_addr(st.mem, ha)
        m1 == [new_from_addr(st.mem, hp) EXCEPT ![hp].is_allocated = TRUE]
        m2 == [m1 EXCEPT ![hp].size =
                   end_addr(m1, self) - end_addr(m1, ha) - HEADER_SIZE]
    IN  [st EXCEPT !.mem = m2, !.size_used = @ + m2[hp].size]

\* provide, lines 102-107: the header of the padding is written at the end of
\* the allocated header, marked allocated and sized up to the end of self.
\* The write goes to memory whatever header is already there: when the
\* allocated header ends at its own address, it is the one overwritten.
header_for_padding(st, self, ha) ==
    LET hp == end_addr(st.mem, ha)
        m1 == [new_from_addr(st.mem, hp) EXCEPT ![hp].is_allocated = TRUE]
        m2 == [m1 EXCEPT ![hp].size = end_addr(m1, self) - end_addr(m1, ha)]
    IN  [st EXCEPT !.mem = m2, !.size_used = @ + m2[hp].size]

\* provide, lines 108-109, in program order on the one memory: the padding
\* header takes over the allocated header's link and the allocated header is
\* linked to the padding header.
link_padding(st, ha, hp) ==
    LET taken == st.mem[ha].next_header
        m1 == [st.mem EXCEPT ![ha].next_header = NULL]
        drop2 == m1[hp].next_header # NULL
        m2 == [m1 EXCEPT ![hp].next_header = taken]
        drop3 == m2[ha].next_header # NULL
        m3 == [m2 EXCEPT ![ha].next_header = hp]
    IN  [st EXCEPT !.mem = m3, !.dropped = @ \/ drop2 \/ drop3]

\* provide, lines 112-115: the assertion, then self shrinks and is linked to
\* the allocated header, whose data address is returned.
shrink_and_link(st, self, ha) ==
    IF st.dropped
    THEN [mem |-> st.mem, some |-> FALSE, ret |-> NULL, panic |-> "drop"]
    ELSE IF ~(st.mem[self].size >= st.size_used + HEADER_SIZE)
    THEN [mem |-> st.mem, some |-> FALSE, ret |-> NULL, panic |-> "assert"]
    ELSE [mem |-> [st.mem EXCEPT ![self].size = @ - st.size_used,
                                 ![self].next_header = ha],
          some |-> TRUE,
          ret |-> ha + HEADER_SIZE,
          panic |-> IF st.mem[self].next_header # NULL
                    THEN "drop" ELSE "no"]

\* provide, lines 86-115: the split of the header at self, which is free and
\* can provide.
split(m, self, layout) ==
    LET size == RoundedSize(layout).val
        align == EffectiveAlign(layout)
        allocated_addr == AlignDown(end_addr(m, self) - size, align)
        ha == allocated_addr - HEADER_SIZE
        st1 == header_for_allocated(m, self, ha)
        hp == end_addr(st1.mem, ha)
    IN  IF end_addr(st1.mem, ha) # end_addr(st1.mem, self)
        THEN shrink_and_link(
                 link_padding(header_for_padding(st1, self, ha), ha, hp),
                 self, ha)
        ELSE shrink_and_link(st1, self, ha)

\* provide with self.next_header.take() moved before the test of line 83:
\* a refusing header has lost its link
provide_take_before_test(m, self, layout) ==
    IF Refuses(m[self], layout)
    THEN [mem |-> [m EXCEPT ![self].next_header = NULL],
          some |-> FALSE, ret |-> NULL, panic |-> "no"]
    ELSE split(m, self, layout)

\* Header::provide on the header at self.  Yields the memory afterwards,
\* whether Some address came back and which, and whether the call panicked
\* (a header dropped by an assignment, or the assertion of line 112).
provide(m, self, layout) ==
    IF Refuses(m[self], layout)
    THEN [mem |-> m, some |-> FALSE, ret |-> NULL, panic |-> "no"]
    ELSE split(m, self, layout)

\* ------------------------------------------------------------------------
\* FirstFitAllocator
\* ------------------------------------------------------------------------
RECURSIVE Scan(_, _, _, _)
\* The loop of alloc_with_options from the link h on, in memory m, having
\* called provide on the headers of visited.  A call that returns None sends
\* the loop to the next link; a header met a second time in a memory no call
\* has changed is met for ever, and the loop does not end.
Scan(m, h, layout, visited) ==
    IF h = NULL
    THEN [outcome |-> "null", ret |-> NULL, mem |-> m, visited |-> visited]
    ELSE IF \E i \in 1..Len(visited) : visited[i] = h
    THEN [outcome |-> "hang", ret |-> NULL, mem |-> m, visited |-> visited]
    ELSE LET p == provide(m, h, layout)
         IN  IF p.panic # "no"
             THEN [outcome |-> p.panic, ret |-> NULL, mem |-> p.mem,
                   visited |-> Append(visited, h)]
             ELSE IF p.some
             THEN [outcome |-> "some", ret |-> p.ret, mem |-> p.mem,
                   visited |-> Append(visited, h)]
             ELSE Scan(p.mem, p.mem[h].next_header, layout,
                       Append(visited, h))

alloc_with_options(m, root, layout) ==
    Scan(m, root, layout, << >>)

\* add_free_from_descriptor on the allocator state st: a fresh header is
\* written at the start of the extent, sized, and pushed on the front of the
\* chain.  A region that starts at 0 starts a page later and its size grows
\* by a page (saturating_add, far from saturation for the maps considered).
\* Each assignment to a next link drops the header the link held.
add_free_from_descriptor(st, desc) ==
    LET zero == desc.physical_start = 0
        start_addr == IF zero THEN desc.physical_start + PAGE_SIZE
                      ELSE desc.physical_start
        size0 == desc.number_of_pages * PAGE_SIZE
        size == IF zero THEN size0 + PAGE_SIZE ELSE size0
        m1 == new_from_addr(st.mem, start_addr)
        m2 == [m1 EXCEPT ![start_addr] = Header(NULL, size, FALSE)]
        prev_last == st.first_header
    IN  IF size <= PAGE_SIZE THEN st
        ELSE [mem |-> [m2 EXCEPT ![start_addr].next_header = prev_last],
              first_header |-> start_addr,
              dropped |-> \/ st.dropped
                          \/ m1[start_addr].next_header # NULL
                          \/ m2[start_addr].next_header # NULL]

RECURSIVE FoldMap_unfiltered(_, _, _)
\* the for loop of init_with_mmap without the test of the memory type
FoldMap_unfiltered(st, map, i) ==
    IF i > Len(map) THEN st
    ELSE FoldMap_unfiltered(add_free_from_descriptor(st, map[i]), map, i + 1)

RECURSIVE FoldMap(_, _, _)
\* the for loop of init_with_mmap over the descriptors i..Len(map)
FoldMap(st, map, i) ==
    IF i > Len(map) THEN st
    ELSE IF map[i].memory_type # "CONVENTIONAL_MEMORY"
    THEN FoldMap(st, map, i + 1)
    ELSE FoldMap(add_free_from_descriptor(st, map[i]), map, i + 1)

\* the allocator state a call started from
Snapshot(m, root) == [mem |-> m, first_header |-> root]

EmptyMem == [a \in {} |-> Header(NULL, 0, FALSE)]

NoCall == [op |-> "none", layout |-> Layout(0, 0), ptr |-> NULL, ret |-> NULL,
           outcome |-> "none", visited |-> << >>,
           before |-> Snapshot(EmptyMem, NULL)]

Init ==
    /\ pc = "boot"
    /\ memory_map \in MemoryMaps
    /\ mem = EmptyMem
    /\ first_header = NULL
    /\ live = {}
    /\ allocs = 0
    /\ frees = 0
    /\ last = NoCall

\* ALLOCATOR.init_with_mmap(&memory_map), called once by init_basic_runtime
init_with_mmap ==
    /\ pc = "boot"
    /\ LET st == FoldMap([mem |-> mem, first_header |-> first_header,
                          dropped |-> FALSE], memory_map, 1)
       IN  /\ mem' = st.mem
           /\ first_header' = st.first_header
           /\ pc' = IF st.dropped THEN "panic" ELSE "run"
           /\ last' = [NoCall EXCEPT !.op = "init",
                         !.outcome = IF st.dropped THEN "drop" ELSE "done"]
    /\ UNCHANGED << memory_map, live, allocs, frees >>

\* GlobalAlloc::alloc(layout) = alloc_with_options(layout).  The call returns
\* an address (outcome "some"), returns null, never returns ("hang") or
\* panics ("drop", "assert").
alloc ==
    /\ pc = "run"
    /\ allocs < MaxAllocs
    /\ \E layout \in Layouts :
        LET s == alloc_with_options(mem, first_header, layout)
        IN  /\ mem' = s.mem
            /\ pc' = CASE s.outcome \in {"some", "null"} -> "run"
                       [] s.outcome = "hang" -> "hung"
                       [] OTHER -> "panic"
            /\ live' = IF s.outcome = "some"
                       THEN live \cup {[ptr |-> s.ret, size |-> layout.size]}
                       ELSE live
            /\ last' = [op |-> "alloc", layout |-> layout, ptr |-> NULL,
                        ret |-> s.ret, outcome |-> s.outcome,
                        visited |-> s.visited,
                        before |-> Snapshot(mem, first_header)]
    /\ allocs' = allocs + 1
    /\ UNCHANGED << memory_map, first_header, frees >>

\* dealloc without Box::leak(region): the handle goes out of scope and the
\* header is dropped
dealloc_without_leak ==
    /\ pc = "run"
    /\ frees < MaxFrees
    /\ \E block \in live :
        LET ptr == block.ptr
            region == from_allocated_region(ptr)
        IN  /\ mem' = [mem EXCEPT ![region].is_allocated = FALSE]
            /\ live' = live \ {block}
            /\ last' = [NoCall EXCEPT !.op = "dealloc", !.ptr = ptr,
                                      !.outcome = "drop",
                                      !.before = Snapshot(mem, first_header)]
    /\ pc' = "panic"
    /\ frees' = frees + 1
    /\ UNCHANGED << memory_map, first_header, allocs >>

\* GlobalAlloc::dealloc(ptr, _layout), ptr an address alloc returned and the
\* caller still holds: the header before ptr is marked free and its handle is
\* leaked, so no destructor runs.
dealloc ==
    /\ pc = "run"
    /\ frees < MaxFrees
    /\ \E block \in live :
        LET ptr == block.ptr
            region == from_allocated_region(ptr)
        IN  /\ mem' = [mem EXCEPT ![region].is_allocated = FALSE]
            /\ live' = live \ {block}
            /\ last' = [NoCall EXCEPT !.op = "dealloc", !.ptr = ptr,
                                      !.outcome = "leaked",
                                      !.before = Snapshot(mem, first_header)]
    /\ frees' = frees + 1
    /\ UNCHANGED << pc, memory_map, first_header, allocs >>

Next == init_with_mmap \/ alloc \/ dealloc

Spec == Init /\ [][Next]_vars

\* ------------------------------------------------------------------------
\* What the properties speak about
\* ------------------------------------------------------------------------
RECURSIVE Walk(_, _, _)
\* the headers met by following next links from h, each listed once
Walk(m, h, seen) ==
    IF h = NULL \/ (\E i \in 1..Len(seen) : seen[i] = h) THEN seen
    ELSE Walk(m, m[h].next_header, Append(seen, h))

\* the chain from the root, as a sequence and as a set
ChainSeq(m, root) == Walk(m, root, << >>)
Chain(m, root) == {ChainSeq(m, root)[i] : i \in 1..Len(ChainSeq(m, root))}

\* following next links from the root ends at None
Acyclic(m, root) ==
    LET c == ChainSeq(m, root)
    IN  c = << >> \/ m[c[Len(c)]].next_header = NULL

\* the last call was an alloc that returned an address
Allocated == last.op = "alloc" /\ last.outcome = "some"

\* [addr, addr + size) lies in the physical extent of descriptor d
InDescriptor(d, addr, size) ==
    /\ d.physical_start <= addr
    /\ addr + size <= d.physical_start + d.number_of_pages * PAGE_SIZE

\* the header at a, free in memory m, satisfies the rounded request
Satisfies(m, a, layout) ==
    /\ RoundedSize(layout).ok
    /\ ~m[a].is_allocated
    /\ m[a].size >= RoundedSize(layout).val + 2 * HEADER_SIZE
                    + EffectiveAlign(layout)

\* the start and size a descriptor is registered with: a descriptor at 0
\* starts one page later, with its size grown by one page
AdjustedStart(d) ==
    IF d.physical_start = 0 THEN PAGE_SIZE ELSE d.physical_start
AdjustedSize(d) ==
    IF d.physical_start = 0 THEN d.number_of_pages * PAGE_SIZE + PAGE_SIZE
    ELSE d.number_of_pages * PAGE_SIZE

\* the descriptor is usable RAM and its adjusted size exceeds a page
Accepted(d) ==
    d.memory_type = "CONVENTIONAL_MEMORY" /\ AdjustedSize(d) > PAGE_SIZE

\* a size that cannot be rounded up to a power of two within the address
\* width: zero (sizes above 2^63, the other case, are beyond the layouts
\* considered)
Unroundable(size) == size = 0

\* ------------------------------------------------------------------------
\* C1
\* ------------------------------------------------------------------------
\* C1: every alloc that succeeds returns an address that is not null, is a
\* multiple of the requested alignment, and whose range [address,
\* address + size) lies inside the physical extent of one usable-RAM
\* descriptor of the memory map.
C1_InBounds ==
    Allocated =>
        /\ last.ret # NULL
        /\ last.ret % last.layout.align = 0
        /\ \E i \in 1..Len(memory_map) :
            /\ memory_map[i].memory_type = "CONVENTIONAL_MEMORY"
            /\ InDescriptor(memory_map[i], last.ret, last.layout.size)

\* ------------------------------------------------------------------------
\* C2
\* ------------------------------------------------------------------------
\* C2: whenever no free header of the chain satisfies the rounded request
\* (size >= rounded size + two header lengths + alignment), alloc returns the
\* null address and nothing else happens.
C2_ExhaustionReturnsNull ==
    (/\ last.op = "alloc"
     /\ ~Unroundable(last.layout.size)
     /\ \A a \in Chain(last.before.mem, last.before.first_header) :
            ~Satisfies(last.before.mem, a, last.layout))
        => (pc = "run" /\ last.outcome = "null" /\ last.ret = NULL)

\* ------------------------------------------------------------------------
\* C3
\* ------------------------------------------------------------------------
\* C3: every alloc call ends, returning an address or null after a scan that
\* met no header twice, and the chain from the root always ends at None
\* (it is finite and holds no cycle).
C3_ScanTerminates ==
    /\ pc # "hung"
    /\ last.op = "alloc" => last.outcome \in {"some", "null"}
    /\ Acyclic(mem, first_header)

\* ------------------------------------------------------------------------
\* C4
\* ------------------------------------------------------------------------
\* C4: every header ever written stays reachable from the chain root by
\* next links.
C4_HeadersStayReachable ==
    DOMAIN mem \subseteq Chain(mem, first_header)

\* ------------------------------------------------------------------------
\* C5
\* ------------------------------------------------------------------------
\* C5: after initialisation, a usable descriptor at physical_start 0 with 9
\* pages has given exactly one free block at 4096 of size 32768, and a usable
\* descriptor at physical_start 0 with 1 page has given no header at all.
C5_ZeroAddressAdjustment ==
    last.op = "init" =>
        /\ memory_map = << Desc("CONVENTIONAL_MEMORY", 0, 9) >> =>
                /\ first_header = 4096
                /\ DOMAIN mem = {4096}
                /\ mem[4096] = Header(NULL, 32768, FALSE)
        /\ memory_map = << Desc("CONVENTIONAL_MEMORY", 0, 1) >> =>
                /\ first_header = NULL
                /\ DOMAIN mem = {}

\* ------------------------------------------------------------------------
\* C6
\* ------------------------------------------------------------------------
\* the start addresses of the blocks init_with_mmap registered: those of the
\* usable-RAM descriptors whose adjusted size exceeds a page
RegionHeaders ==
    {AdjustedStart(memory_map[i]) :
        i \in {j \in 1..Len(memory_map) : Accepted(memory_map[j])}}

\* the headers of memory m that a split wrote and a dealloc marked free
FreedBlocks(m) == {a \in DOMAIN m : a \notin RegionHeaders /\ ~m[a].is_allocated}

\* two blocks of one size x were allocated and both freed, and the request
\* is larger than x and at most 2x
TwoFreedThenDouble(m, layout) ==
    \E x \in {l.size : l \in Layouts} :
        /\ x > 0
        /\ x < layout.size
        /\ layout.size <= 2 * x
        /\ \E a, b \in FreedBlocks(m) :
            /\ a # b
            /\ m[a].size = m[b].size
            /\ m[a].size >= x
            /\ m[a].size < 2 * x

\* C6: freed memory is never merged: with blocks A and B of size X allocated
\* and both freed, a request of about 2X that no single free header satisfies
\* returns the null address, although the freed capacity adds up to it.
C6_NoCoalescing ==
    (/\ last.op = "alloc"
     /\ TwoFreedThenDouble(last.before.mem, last.layout)
     /\ \A a \in DOMAIN last.before.mem :
            ~Satisfies(last.before.mem, a, last.layout))
        => (pc = "run" /\ last.outcome = "null" /\ last.ret = NULL)

\* ------------------------------------------------------------------------
\* C7
\* ------------------------------------------------------------------------
\* C7: dealloc(p) changes exactly the allocated flag of the header at
\* p - 32, which becomes false: the root, every next link, every size and
\* every other flag are as before the call, and no header appears or
\* disappears.
C7_FreeFlipsOneFlag ==
    last.op = "dealloc" =>
        LET b == last.before.mem
            r == last.ptr - 32
        IN  /\ first_header = last.before.first_header
            /\ DOMAIN mem = DOMAIN b
            /\ r \in DOMAIN b
            /\ mem[r] = [b[r] EXCEPT !.is_allocated = FALSE]
            /\ \A a \in DOMAIN b : a # r => mem[a] = b[a]

\* a block split off a block that had a successor was freed, its flag going
\* from true to false, with another allocated header in memory
C7_Witness ==
    /\ last.op = "dealloc"
    /\ last.before.mem[last.ptr - 32].is_allocated
    /\ ~mem[last.ptr - 32].is_allocated
    /\ Cardinality(DOMAIN mem) >= 3
    /\ \E a \in DOMAIN mem : a # last.ptr - 32 /\ mem[a].is_allocated

\* ------------------------------------------------------------------------
\* C8
\* ------------------------------------------------------------------------
\* C8 as claimed: a request whose size cannot be rounded fails before any
\* header is visited, with a condition other than the null of exhaustion.
C8_FailsBeforeTraversal ==
    (last.op = "alloc" /\ Unroundable(last.layout.size)) =>
        /\ last.visited = << >>
        /\ last.outcome \notin {"some", "null"}

\* ------------------------------------------------------------------------
\* C9
\* ------------------------------------------------------------------------
\* C9: an alloc call that does not return an address leaves the root and
\* every header as they were, and writes no new header.
C9_FailureChangesNothing ==
    (last.op = "alloc" /\ last.outcome # "some") =>
        /\ last.ret = NULL
        /\ mem = last.before.mem
        /\ first_header = last.before.first_header

\* a request that can be rounded but is too large for either header of the
\* chain was refused by both and returned null
C9_Witness ==
    /\ last.op = "alloc"
    /\ last.outcome = "null"
    /\ ~Unroundable(last.layout.size)
    /\ Len(last.visited) >= 2
    /\ \A i \in 1..Len(last.visited) : ~mem[last.visited[i]].is_allocated
    /\ last.before.mem[last.visited[1]].next_header = last.visited[2]

\* ------------------------------------------------------------------------
\* C10
\* ------------------------------------------------------------------------
\* C10: the destructor of a header never runs: no call of init_with_mmap,
\* alloc or dealloc drops a header.
C10_DropNeverRuns == last.outcome # "drop"

\* a dealloc leaked its handle after splits that relinked a block with a
\* successor
C10_Witness ==
    /\ last.op = "dealloc"
    /\ last.outcome = "leaked"
    /\ allocs >= 2
    /\ Cardinality(DOMAIN mem) >= 4

\* ------------------------------------------------------------------------
\* C11
\* ------------------------------------------------------------------------
RECURSIVE AcceptedReversed(_, _)
\* the accepted descriptors among map[i..], last first
AcceptedReversed(map, i) ==
    IF i > Len(map) THEN << >>
    ELSE AcceptedReversed(map, i + 1)
             \o (IF Accepted(map[i]) THEN << map[i] >> ELSE << >>)

Overlap(lo1, hi1, lo2, hi2) == lo1 < hi2 /\ lo2 < hi1

\* C12: the byte ranges of the blocks handed out and not yet freed are
\* pairwise disjoint, and none contains a byte of a header linked in the
\* chain, whatever regions were registered.
C12_LiveRangesDisjoint ==
    /\ \A b1 \in live, b2 \in live :
        b1 # b2 => ~Overlap(b1.ptr, b1.ptr + b1.size, b2.ptr, b2.ptr + b2.size)
    /\ \A b \in live, h \in Chain(mem, first_header) :
        ~Overlap(b.ptr, b.ptr + b.size, h, h + HEADER_SIZE)

\* ------------------------------------------------------------------------
\* C13
\* ------------------------------------------------------------------------
\* the header the last call carved from: the last one provide was called on
Winner == last.visited[Len(last.visited)]

\* the headers that followed the header at h in the memory m, in chain order
Successors(m, h) == ChainSeq(m, m[h].next_header)

\* C13: after a successful split the chain from the winning block reads the
\* winning block, the new allocated header, the padding header if there is
\* one, then the former successors, unchanged; the winning block links to the
\* new allocated header and no header links to itself.
C13_SplitKeepsTail ==
    Allocated =>
        LET b == last.before.mem
            ha == from_allocated_region(last.ret)
            T == Successors(b, Winner)
            after == ChainSeq(mem, Winner)
        IN  /\ \/ after = << Winner, ha >> \o T
               \/ \E hp \in DOMAIN mem \ {Winner, ha} :
                      /\ hp \notin DOMAIN b
                      /\ after = << Winner, ha, hp >> \o T
            /\ \A k \in 1..Len(T) : mem[T[k]] = b[T[k]]
            /\ mem[Winner].next_header = ha
            /\ \A a \in DOMAIN mem : mem[a].next_header # a

\* ------------------------------------------------------------------------
\* C14
\* ------------------------------------------------------------------------
\* provide, lines 90-102, on the free header at self that can provide: the
\* address the padding header is written at, NULL when the test of line 100
\* fails and none is written
header_for_padding_addr(m, self, layout) ==
    LET allocated_addr == AlignDown(end_addr(m, self) - RoundedSize(layout).val,
                                    EffectiveAlign(layout))
        ha == allocated_addr - HEADER_SIZE
        st1 == header_for_allocated(m, self, ha)
    IN  IF end_addr(st1.mem, ha) # end_addr(st1.mem, self)
        THEN end_addr(st1.mem, ha)
        ELSE NULL

\* C14: a split writes a padding header only when the returned region stops
\* short of the end E of the winning block; the padding header is a second
\* header, at another address than the allocated header, in the gap between
\* the end of the returned region and E, and it is marked allocated.
C14_PaddingIsSecondHeader ==
    Allocated =>
        LET b == last.before.mem
            E == end_addr(b, Winner)
            ha == from_allocated_region(last.ret)
            region_end == last.ret + RoundedSize(last.layout).val
            hp == header_for_padding_addr(b, Winner, last.layout)
        IN  hp # NULL =>
                /\ region_end < E
                /\ hp # ha
                /\ hp >= region_end
                /\ hp + HEADER_SIZE <= E
                /\ hp \in DOMAIN mem
                /\ mem[hp].is_allocated

\* ------------------------------------------------------------------------
\* C15
\* ------------------------------------------------------------------------
\* C15 as stated: the data of the winning block at H with size S ends at
\* E = H + 32 + S, and a successful call returns E - roundedSize rounded down
\* to the effective alignment, the header 32 bytes before it marked allocated.
C15_ReturnsTailOfData ==
    Allocated =>
        LET H == Winner
            S == last.before.mem[H].size
            E == H + HEADER_SIZE + S
        IN  /\ last.ret = AlignDown(E - Max(round_up_to_nearest_pow2(
                                                last.layout.size).val, 32),
                                    Max(last.layout.align, 32))
            /\ mem[last.ret - 32].is_allocated

\* C15, amended: the extent of the winning block at H with size S ends at
\* E = H + S, the size being counted from the header's own address, and a
\* successful call returns E - roundedSize rounded down to the effective
\* alignment, the header 32 bytes before it marked allocated.
C15_ReturnsTailOfExtent ==
    Allocated =>
        LET H == Winner
            S == last.before.mem[H].size
            E == H + S
        IN  /\ last.ret = AlignDown(E - Max(round_up_to_nearest_pow2(
                                                last.layout.size).val, 32),
                                    Max(last.layout.align, 32))
            /\ mem[last.ret - 32].is_allocated

\* a call returned an address the alignment had rounded down, a request's
\* length or more before the end of the block it was carved from
C15_Witness ==
    /\ Allocated
    /\ last.layout.align = 4096
    /\ last.ret % 4096 = 0
    /\ last.ret + 2 * last.layout.size
           <= Winner + last.before.mem[Winner].size
    /\ mem[last.ret - 32].is_allocated

\* ------------------------------------------------------------------------
\* C16
\* ------------------------------------------------------------------------
\* the request can be rounded, and the header h is free and large enough for
\* the rounded request: size >= roundedSize + 2 * 32 + effectiveAlign
Qualifies(h, layout) ==
    /\ round_up_to_nearest_pow2(layout.size).ok
    /\ ~h.is_allocated
    /\ h.size >= Max(round_up_to_nearest_pow2(layout.size).val, 32)
                     + 2 * 32 + Max(layout.align, 32)

\* C16: a successful call has walked the chain from the root, link by link,
\* past headers that are allocated or too small, and has carved from the
\* first header that is free and large enough; an allocated header is never
\* the one carved from.
C16_FirstFit ==
    Allocated =>
        LET b == last.before.mem
            v == last.visited
        IN  /\ v[1] = last.before.first_header
            /\ \A k \in 1..(Len(v) - 1) :
                /\ ~Qualifies(b[v[k]], last.layout)
                /\ v[k + 1] = b[v[k]].next_header
            /\ Qualifies(b[Winner], last.layout)
            /\ mem[Winner].next_header = last.ret - 32
            /\ mem[Winner].size < b[Winner].size

\* the call passed a free header too small for the request and carved from
\* the next one, which lay at a lower address
C16_Witness ==
    /\ Allocated
    /\ Len(last.visited) = 2
    /\ ~last.before.mem[last.visited[1]].is_allocated
    /\ Winner = last.before.mem[last.visited[1]].next_header
    /\ Winner < last.visited[1]
    /\ mem[Winner].size < last.before.mem[Winner].size

\* ------------------------------------------------------------------------
\* C17
\* ------------------------------------------------------------------------
\* C17: in a split the assertion of the size accounting holds, the winning
\* block shrinks by exactly the bytes from the new allocated header to its
\* former end E, and its extent then ends where the new allocated header
\* begins; the new header's extent ends at E and the extent of every other
\* header is as it was, so that the headers made from a region go on covering
\* the region's registered bytes without gap or overlap.
C17_SplitAccounting ==
    /\ last.outcome # "assert"
    /\ Allocated =>
        LET b == last.before.mem
            ha == last.ret - HEADER_SIZE
            E == Winner + b[Winner].size
        IN  /\ b[Winner].size - mem[Winner].size = E - ha
            /\ Winner + mem[Winner].size = ha
            /\ ha + mem[ha].size = E
            /\ \A a \in DOMAIN b \ {Winner} : mem[a].size = b[a].size

\* a block that had been split off and freed was split in its turn, after
\* the header before it in the chain had refused
C17_Witness ==
    /\ Allocated
    /\ Len(last.visited) >= 2
    /\ Winner \notin RegionHeaders
    /\ Winner + mem[Winner].size = last.ret - HEADER_SIZE
    /\ mem[Winner].size < last.before.mem[Winner].size

====
